---- MODULE Spec2Model ----
(***************************************************************************)
(* Model of the dna crate (src/dna/src/lib.rs): the nucleotide type Nuc,   *)
(* its two parsers, and the PackedDna container with its from_str,         *)
(* from_iterator and get operations.                                       *)
(*                                                                         *)
(* Characters are Unicode scalar values (integers); a string is a sequence *)
(* of characters.  A Nuc is one of the four variant names.                 *)
(*                                                                         *)
(* The source is a sketch that rustc rejects.  The model follows the       *)
(* statements as written and reads the three ill-typed places the only way *)
(* the surrounding signatures allow:                                       *)
(*   - line 81, `_ => Err(ParseNucError(upper))` inside the loop of a      *)
(*     function returning Result: the function ends with that error;       *)
(*   - line 84, `Ok(v)` for a Result<PackedDna, _>: the value is the       *)
(*     PackedDna whose DNA field is v;                                     *)
(*   - line 99, `self.DNA = v` through `&self`: the field of the receiver  *)
(*     is overwritten.                                                     *)
(***************************************************************************)
EXTENDS Integers, Sequences, FiniteSets, TLC

VARIABLES heap, last

vars == <<heap, last>>

\* ---------------------------------------------------------------- bounds

\* Longest string token handed to Nuc::from_str.
MaxTok == 2

\* Longest text handed to PackedDna::from_str in the one-binding program.
MaxText == 2

\* Longest symbol sequence handed to from_iterator in the one-binding program.
MaxLen == 3

\* Number of PackedDna bindings of the several-bindings program.
MaxInst == 2

\* Longest text / symbol sequence in the several-bindings program.
MaxHeapLen == 2

\* ------------------------------------------------------------ characters

\* 'A' 'C' 'G' 'T' 'a' 'c' 'g' 't'
NucChars == {65, 67, 71, 84, 97, 99, 103, 116}

\* 'X' 'x' ' ' : characters no arm accepts
OtherChars == {88, 120, 32}

Chars == NucChars \cup OtherChars

\* All strings over cs of length at most n.
StringsUpTo(cs, n) == UNION {[1..k -> cs] : k \in 0..n}

\* char::to_ascii_uppercase: 'a'..='z' move to 'A'..='Z', all else is kept.
to_ascii_uppercase(c) == IF c >= 97 /\ c <= 122 THEN c - 32 ELSE c

\* str::to_ascii_uppercase: character by character.
str_to_ascii_uppercase(s) == [i \in 1..Len(s) |-> to_ascii_uppercase(s[i])]

\* ------------------------------------------------------------------- Nuc

Nuc == {"A", "C", "G", "T"}

Ok(v) == [ok |-> TRUE, val |-> v]

Err(e) == [ok |-> FALSE, err |-> e]

\* Mutant of Nuc_try_from: the error carries the upper-cased character.
Nuc_try_from_m(value) ==
    LET u == to_ascii_uppercase(value) IN
    CASE u = 65 -> Ok("A")
      [] u = 67 -> Ok("C")
      [] u = 71 -> Ok("G")
      [] u = 84 -> Ok("T")
      [] OTHER  -> Err(u)

\* impl TryFrom<char> for Nuc
Nuc_try_from(value) ==
    LET u == to_ascii_uppercase(value) IN
    CASE u = 65 -> Ok("A")
      [] u = 67 -> Ok("C")
      [] u = 71 -> Ok("G")
      [] u = 84 -> Ok("T")
      [] OTHER  -> Err(value)

\* Mutant of Nuc_from_str: the error carries the string as given.
Nuc_from_str_m(s) ==
    LET upper == str_to_ascii_uppercase(s) IN
    CASE upper = <<65>> -> Ok("A")
      [] upper = <<67>> -> Ok("C")
      [] upper = <<71>> -> Ok("G")
      [] upper = <<84>> -> Ok("T")
      [] OTHER          -> Err(s)

\* impl FromStr for Nuc
Nuc_from_str(s) ==
    LET upper == str_to_ascii_uppercase(s) IN
    CASE upper = <<65>> -> Ok("A")
      [] upper = <<67>> -> Ok("C")
      [] upper = <<71>> -> Ok("G")
      [] upper = <<84>> -> Ok("T")
      [] OTHER          -> Err(upper)

\* #[derive(Debug)] on Nuc: the variant's name, a single letter.
Nuc_debug(n) ==
    CASE n = "A" -> 65
      [] n = "C" -> 67
      [] n = "G" -> 71
      [] n = "T" -> 84

\* ------------------------------------------------------------- PackedDna

\* struct PackedDna { DNA: Vec<u8> }
PackedDna(v) == [live |-> TRUE, DNA |-> v]

\* A binding that holds no PackedDna (not yet built, or dropped).
NoInst == [live |-> FALSE, DNA |-> <<>>]

\* Mutant of CodeOfChar: the codes of 'G' and 'T' are exchanged.
CodeOfChar_m(c) ==
    CASE c = 65 -> Ok(0)
      [] c = 67 -> Ok(1)
      [] c = 71 -> Ok(3)
      [] c = 84 -> Ok(2)
      [] OTHER  -> Err(c)

\* The match of PackedDna::from_str on one character of `upper`.
CodeOfChar(c) ==
    CASE c = 65 -> Ok(0)
      [] c = 67 -> Ok(1)
      [] c = 71 -> Ok(2)
      [] c = 84 -> Ok(3)
      [] OTHER  -> Err(c)

\* The for loop of PackedDna::from_str, from position i of upper with v
\* pushed so far.
RECURSIVE from_str_loop(_, _, _)
from_str_loop(upper, i, v) ==
    IF i > Len(upper) THEN Ok(PackedDna(v))
    ELSE LET r == CodeOfChar(upper[i]) IN
         IF r.ok THEN from_str_loop(upper, i + 1, Append(v, r.val))
         ELSE Err(upper)

\* impl FromStr for PackedDna
PackedDna_from_str(s) == from_str_loop(str_to_ascii_uppercase(s), 1, <<>>)

\* Mutant of CodeOfNuc: the codes of C and G are exchanged.
CodeOfNuc_m(c) ==
    CASE c = "A" -> 0
      [] c = "C" -> 2
      [] c = "G" -> 1
      [] c = "T" -> 3

\* The match of PackedDna::from_iterator on one Nuc.
CodeOfNuc(c) ==
    CASE c = "A" -> 0
      [] c = "C" -> 1
      [] c = "G" -> 2
      [] c = "T" -> 3

\* Mutant of from_iterator_loop: the loop stops before the last value.
RECURSIVE from_iterator_loop_m(_, _, _)
from_iterator_loop_m(iter, i, v) ==
    IF i >= Len(iter) THEN v
    ELSE from_iterator_loop_m(iter, i + 1, Append(v, CodeOfNuc(iter[i])))

\* The for loop of PackedDna::from_iterator, from position i of iter.
RECURSIVE from_iterator_loop(_, _, _)
from_iterator_loop(iter, i, v) ==
    IF i > Len(iter) THEN v
    ELSE from_iterator_loop(iter, i + 1, Append(v, CodeOfNuc(iter[i])))

\* PackedDna::from_iterator: the receiver after the call.
PackedDna_from_iterator(self, iter) ==
    [self EXCEPT !.DNA = from_iterator_loop(iter, 1, <<>>)]

\* Mutant of NucOfCode: the arm for 3 is missing.
NucOfCode_m(b) ==
    CASE b = 0 -> Ok("A")
      [] b = 1 -> Ok("C")
      [] b = 2 -> Ok("G")
      [] OTHER -> [ok |-> FALSE, panic |-> "no match arm"]

\* The match of PackedDna::get on one stored byte; it has no arm for a byte
\* above 3.
NucOfCode(b) ==
    CASE b = 0 -> Ok("A")
      [] b = 1 -> Ok("C")
      [] b = 2 -> Ok("G")
      [] b = 3 -> Ok("T")
      [] OTHER -> [ok |-> FALSE, panic |-> "no match arm"]

\* Mutant of PackedDna_get: an index beyond the Vec reads zero bits.
PackedDna_get_m(self, idx) ==
    IF idx < Len(self.DNA) THEN NucOfCode(self.DNA[idx + 1])
    ELSE NucOfCode(0)

\* PackedDna::get: Vec indexing panics when idx is not below the Vec's len.
PackedDna_get(self, idx) ==
    IF idx < Len(self.DNA) THEN NucOfCode(self.DNA[idx + 1])
    ELSE [ok |-> FALSE, panic |-> "index out of bounds"]

\* ----------------------------------------------------------------- state

Slots == 1..MaxInst

Init ==
    /\ heap = [k \in Slots |-> NoInst]
    /\ last = [op |-> "init", slot |-> 0, arg |-> <<>>, ret |-> <<>>]

\* Nuc::try_from(c)
TryFromChar(c) ==
    /\ last' = [op |-> "try_from", slot |-> 0, arg |-> c, ret |-> Nuc_try_from(c)]
    /\ UNCHANGED heap

\* Nuc::from_str(s), s.parse::<Nuc>()
NucFromStr(s) ==
    /\ last' = [op |-> "nuc_from_str", slot |-> 0, arg |-> s, ret |-> Nuc_from_str(s)]
    /\ UNCHANGED heap

\* PackedDna::from_str(s) for a text s of at most n characters: an Ok value is
\* bound to the free binding k, on Err nothing is bound and the caller goes on.
PackedFromStr(k, n) ==
    /\ ~heap[k].live
    /\ \E s \in StringsUpTo(Chars, n) :
         LET r == PackedDna_from_str(s) IN
         /\ heap' = IF r.ok THEN [heap EXCEPT ![k] = r.val] ELSE heap
         /\ last' = [op |-> "from_str", slot |-> k, arg |-> s, ret |-> r]

\* k.from_iterator(iter) for a Vec<Nuc> of at most n values
FromIterator(k, n) ==
    /\ heap[k].live
    /\ \E iter \in StringsUpTo(Nuc, n) :
         /\ heap' = [heap EXCEPT ![k] = PackedDna_from_iterator(heap[k], iter)]
         /\ last' = [op |-> "from_iterator", slot |-> k, arg |-> iter, ret |-> <<>>]

\* k.get(idx) for an index up to n
Get(k, n) ==
    /\ heap[k].live
    /\ \E idx \in 0..n :
         /\ last' = [op |-> "get", slot |-> k, arg |-> idx,
                     ret |-> PackedDna_get(heap[k], idx)]
         /\ UNCHANGED heap

\* The binding k goes out of scope.
Drop(k) ==
    /\ heap[k].live
    /\ heap' = [heap EXCEPT ![k] = NoInst]
    /\ last' = [op |-> "drop", slot |-> k, arg |-> <<>>, ret |-> <<>>]

\* The two parsers of Nuc alone.
NextNuc ==
    \/ \E c \in Chars : TryFromChar(c)
    \/ \E s \in StringsUpTo(Chars, MaxTok) : NucFromStr(s)

SpecNuc == Init /\ [][NextNuc]_vars

\* A program with one PackedDna binding.
NextSeq ==
    \/ PackedFromStr(1, MaxText)
    \/ FromIterator(1, MaxLen)
    \/ Get(1, MaxLen + 1)
    \/ Drop(1)

SpecSeq == Init /\ [][NextSeq]_vars

\* A program with several PackedDna bindings.
Next ==
    \/ \E k \in Slots : PackedFromStr(k, MaxHeapLen)
    \/ \E k \in Slots : FromIterator(k, MaxHeapLen)
    \/ \E k \in Slots : Get(k, MaxHeapLen + 1)
    \/ \E k \in Slots : Drop(k)

Spec == Init /\ [][Next]_vars

\* ------------------------------------------------------------ properties

\* The Nuc a letter names, whatever its case.
NucOfLetter(c) ==
    CASE c \in {65, 97}  -> "A"
      [] c \in {67, 99}  -> "C"
      [] c \in {71, 103} -> "G"
      [] c \in {84, 116} -> "T"

\* Smallest x with 4 * x >= n.
CeilDiv4(n) == (n + 3) \div 4

\* The text read back from a container: get(0), get(1), ... up to its length.
to_text(p) == [i \in 1..Len(p.DNA) |-> Nuc_debug(PackedDna_get(p, i - 1).val)]

\* Position of the first character of s outside [ACGTacgt], 0 when none.
FirstInvalid(s) ==
    IF \A i \in 1..Len(s) : s[i] \in NucChars THEN 0
    ELSE CHOOSE i \in 1..Len(s) :
           /\ s[i] \notin NucChars
           /\ \A j \in 1..(i - 1) : s[j] \in NucChars

\* C1: Nuc::try_from(c) returns Ok of the case-normalized Nuc for each of the
\* eight letters A a C c G g T t, and for every other character Err carrying
\* exactly c as given.
C1_ParseCharTotalExact ==
    last.op = "try_from" =>
        IF last.arg \in NucChars
        THEN last.ret.ok /\ last.ret.val = NucOfLetter(last.arg)
        ELSE ~last.ret.ok /\ last.ret.err = last.arg

\* C1 witness: the lower-case letter g was parsed to G.
C1_Witness ==
    /\ last.op = "try_from"
    /\ last.arg = 103
    /\ last.ret.ok
    /\ last.ret.val = "G"

\* C2: Nuc::from_str(s) returns Ok exactly for the eight one-letter strings,
\* with the Nuc try_from gives for that letter; for every other string (empty,
\* or two and more characters) it returns Err carrying s in upper case.
C2_ParseStrExact ==
    last.op = "nuc_from_str" =>
        LET s == last.arg IN
        IF Len(s) = 1 /\ s[1] \in NucChars
        THEN last.ret.ok /\ last.ret.val = Nuc_try_from(s[1]).val
        ELSE ~last.ret.ok /\ last.ret.err = str_to_ascii_uppercase(s)

\* C2 witness: the two-letter string "ac" was rejected with "AC".
C2_Witness ==
    /\ last.op = "nuc_from_str"
    /\ last.arg = <<97, 99>>
    /\ ~last.ret.ok
    /\ last.ret.err = <<65, 67>>

\* C3 (as claimed): for every text with a character outside [ACGTacgt],
\* PackedDna::from_str fails, binds no container, and its error identifies the
\* first invalid character specifically (that character alone, as given or in
\* upper case).
C3_FirstInvalidReported ==
    (last.op = "from_str" /\ FirstInvalid(last.arg) > 0) =>
        LET c == last.arg[FirstInvalid(last.arg)] IN
        /\ ~last.ret.ok
        /\ ~heap[last.slot].live
        /\ last.ret.err \in {<<c>>, <<to_ascii_uppercase(c)>>}

\* C4: for every text s over [ACGTacgt], the empty one included,
\* PackedDna::from_str(s) is Ok, the container holds as many symbols as s has
\* characters, and get(0), get(1), ... read back s in upper case.
C4_RoundTrip ==
    (last.op = "from_str" /\ FirstInvalid(last.arg) = 0) =>
        /\ last.ret.ok
        /\ heap[last.slot] = last.ret.val
        /\ Len(heap[last.slot].DNA) = Len(last.arg)
        /\ \A i \in 1..Len(last.arg) : PackedDna_get(heap[last.slot], i - 1).ok
        /\ to_text(heap[last.slot]) = str_to_ascii_uppercase(last.arg)

\* C4 witness: the mixed-case text "gC" was parsed.
C4_Witness ==
    /\ last.op = "from_str"
    /\ last.arg = <<103, 67>>
    /\ last.ret.ok
    /\ heap[last.slot].DNA = <<2, 1>>

\* C5: after from_iterator(xs) the container is there, holds Len(xs) symbols,
\* and get(i) is Ok(xs[i]) for every i below that length.
C5_FromSymbolsGet ==
    last.op = "from_iterator" =>
        LET xs == last.arg
            p  == heap[last.slot] IN
        /\ p.live
        /\ Len(p.DNA) = Len(xs)
        /\ \A i \in 0..(Len(xs) - 1) :
             LET r == PackedDna_get(p, i) IN r.ok /\ r.val = xs[i + 1]

\* C5 witness: the container was built from [T, A, C].
C5_Witness ==
    /\ last.op = "from_iterator"
    /\ last.arg = <<"T", "A", "C">>
    /\ Len(heap[last.slot].DNA) = 3

\* C6: get(idx) with idx at or beyond the container's length fails with a
\* panic (not a parse error, not a Nuc); on the empty container every get
\* fails.
C6_OutOfBoundsFails ==
    (last.op = "get" /\ last.arg >= Len(heap[last.slot].DNA)) =>
        /\ ~last.ret.ok
        /\ DOMAIN last.ret = {"ok", "panic"}

\* C6 witness: get(0) was called on the container built from the empty text.
C6_Witness ==
    /\ last.op = "get"
    /\ last.arg = 0
    /\ heap[last.slot].live
    /\ heap[last.slot].DNA = <<>>
    /\ ~last.ret.ok

\* C7 (as claimed): a container built from n symbols, by from_str or by
\* from_iterator, holds ceil(n / 4) bytes.
C7_PackingDensity ==
    ((last.op = "from_str" /\ last.ret.ok) \/ last.op = "from_iterator") =>
        Len(heap[last.slot].DNA) = CeilDiv4(Len(last.arg))

\* C8: for every text s over [ACGTacgt], the container from_str(s) and the
\* container from_iterator makes of the try_from of each character of s have
\* the same length and the same get(i) at every index below it.
C8_ConstructionPathsAgree ==
    (last.op = "from_str" /\ last.ret.ok) =>
        LET s  == last.arg
            xs == [i \in 1..Len(s) |-> Nuc_try_from(s[i]).val]
            p  == heap[last.slot]
            q  == PackedDna_from_iterator(PackedDna(<<>>), xs) IN
        /\ Len(p.DNA) = Len(q.DNA)
        /\ \A i \in 0..(Len(s) - 1) : PackedDna_get(p, i) = PackedDna_get(q, i)

\* C8 witness: the text "tG" was parsed, and from_iterator of [T, G] gives a
\* container of the same two symbols.
C8_Witness ==
    /\ last.op = "from_str"
    /\ last.arg = <<116, 71>>
    /\ last.ret.ok
    /\ PackedDna_from_iterator(PackedDna(<<>>), <<"T", "G">>).DNA = heap[last.slot].DNA

\* C9 (as claimed): no from_str, from_iterator or get changes the buffer of a
\* container that exists when it is called.
C9_ExistingUnchanged ==
    [][\A k \in Slots :
         (heap[k].live /\ last'.op \in {"from_str", "from_iterator", "get"})
            => heap'[k] = heap[k]]_vars

\* C10: every byte stored in a container is one of 0, 1, 2, 3, so get is
\* defined at every position below the length; the codes are A=0, C=1, G=2,
\* T=3 on both construction paths, and decoding a Nuc's code gives it back.
C10_ValidCodes ==
    /\ \A k \in Slots : heap[k].live =>
         \A i \in 1..Len(heap[k].DNA) :
           /\ heap[k].DNA[i] \in 0..3
           /\ PackedDna_get(heap[k], i - 1).ok
    /\ \A n \in Nuc : NucOfCode(CodeOfNuc(n)) = Ok(n)
    /\ <<CodeOfNuc("A"), CodeOfNuc("C"), CodeOfNuc("G"), CodeOfNuc("T")>> = <<0, 1, 2, 3>>
    /\ \A n \in Nuc : CodeOfChar(Nuc_debug(n)) = Ok(CodeOfNuc(n))

\* C10 witness: a container holding G, T and A, built by from_iterator.
C10_Witness ==
    /\ last.op = "from_iterator"
    /\ heap[last.slot].DNA = <<2, 3, 0>>

====
